---- MODULE Spec2Model ----
(***************************************************************************)
(* Model of extract-dependency (src/src/main.rs): the ContainTypes         *)
(* extractor over the rustc_ast type shapes, the Collector visitor, the    *)
(* graph pre-processing, the fixed-point loop of main and the dot          *)
(* renderer.                                                               *)
(***************************************************************************)
EXTENDS Integers, Sequences, FiniteSets, TLC

(***************************************************************************)
(* Bounds.                                                                 *)
(***************************************************************************)
\* number of items the visitor is given in one run of the pipeline
MaxItems == 3
\* nesting depth of the type shapes the extractor is applied to
MaxDepth == 2

(***************************************************************************)
(* rustc_ast shapes, as tagged records.                                    *)
(***************************************************************************)
NoArgs == [tag |-> "None"]
AngleBracketed(as) == [tag |-> "AngleBracketed", args |-> as]
Parenthesized(ins, out) == [tag |-> "Parenthesized", inputs |-> ins, output |-> out]

\* FnRetTy
RetDefault == [tag |-> "Default"]
RetTy(ty) == [tag |-> "Ty", ty |-> ty]

\* GenericArg
ArgLifetime == [tag |-> "Lifetime"]
ArgConst == [tag |-> "Const"]
ArgType(ty) == [tag |-> "Type", ty |-> ty]

\* AssocTyConstraintKind
Equality(ty) == [tag |-> "Equality", ty |-> ty]
Bound == [tag |-> "Bound"]

\* AngleBracketedArg
Arg(a) == [tag |-> "Arg", arg |-> a]
Constraint(id, ga, k) == [tag |-> "Constraint", ident |-> id, gen_args |-> ga, ckind |-> k]

PathSegment(id, as) == [ident |-> id, args |-> as]
MkPath(segs) == [segments |-> segs]

\* TyKind
Slice(ty) == [kind |-> "Slice", ty |-> ty]
Array(ty) == [kind |-> "Array", ty |-> ty]
Paren(ty) == [kind |-> "Paren", ty |-> ty]
Ptr(ty) == [kind |-> "Ptr", mt |-> [ty |-> ty]]
Rptr(ty) == [kind |-> "Rptr", mt |-> [ty |-> ty]]
BareFn(ins, out) == [kind |-> "BareFn", f |-> [inputs |-> ins, output |-> out]]
Tup(tys) == [kind |-> "Tup", tys |-> tys]
PathTy(segs) == [kind |-> "Path", p |-> MkPath(segs)]
Opaque(k) == [kind |-> k]
Named(n) == PathTy(<<PathSegment(n, NoArgs)>>)

OpaqueKinds ==
  {"ImplTrait", "TraitObject", "Typeof", "MacCall", "ImplicitSelf",
   "Never", "Infer", "Err", "CVarArgs"}

\* VariantData
VStruct(fs) == [tag |-> "Struct", fields |-> fs]
VTuple(fs) == [tag |-> "Tuple", fields |-> fs]
VUnit == [tag |-> "Unit"]
FieldDef(ty) == [ty |-> ty]

\* TyAliasKind: the fourth component is the optional target type
AliasTo(ty) == [tag |-> "Some", ty |-> ty]
AliasOpaque == [tag |-> "None"]

\* Item
StructItem(id, vd) == [ident |-> id, kind |-> "Struct", body |-> vd, nested |-> <<>>]
AliasItem(id, ak) == [ident |-> id, kind |-> "TyAlias", body |-> ak, nested |-> <<>>]
OtherItem(id, ns) == [ident |-> id, kind |-> "Other", body |-> VUnit, nested |-> ns]
NoItem == [ident |-> "", kind |-> "NoItem", body |-> VUnit, nested |-> <<>>]

(***************************************************************************)
(* trait ContainTypes: one operator per impl.                              *)
(***************************************************************************)
RECURSIVE Ty_type_names(_)
RECURSIVE Path_type_names(_)
RECURSIVE GenericArgs_type_names(_)
RECURSIVE AngleBracketedArg_type_names(_)
RECURSIVE GenericArg_type_names(_)
RECURSIVE ParenthesizedArgs_type_names(_)
RECURSIVE FnRetTy_type_names(_)

\* flat_map(|x| ...).collect() over a sequence
FlatMap(F(_), s) == UNION {F(s[i]) : i \in 1..Len(s)}

\* the pointee is traversed
MutTy_type_names_rec(mt) == Ty_type_names(mt.ty)

MutTy_type_names(mt) == {}

BareFnTy_type_names(f) == {}

Ty_type_names(ty) ==
  CASE ty.kind \in {"Slice", "Array", "Paren"} -> Ty_type_names(ty.ty)
    [] ty.kind \in {"Ptr", "Rptr"} -> MutTy_type_names(ty.mt)
    [] ty.kind = "BareFn" -> BareFnTy_type_names(ty.f)
    [] ty.kind = "Tup" -> FlatMap(Ty_type_names, ty.tys)
    [] ty.kind = "Path" -> Path_type_names(ty.p)
    [] ty.kind \in OpaqueKinds -> {}

FnRetTy_type_names(r) ==
  IF r.tag = "Ty" THEN Ty_type_names(r.ty) ELSE {}

\* the first segment is taken instead of the last
Path_type_names_first(p) ==
  LET seg == p.segments[1]
      set == IF seg.args.tag = "None" THEN {} ELSE GenericArgs_type_names(seg.args)
  IN  set \cup {seg.ident}

Path_type_names(p) ==
  LET seg == p.segments[Len(p.segments)]
      set == IF seg.args.tag = "None" THEN {} ELSE GenericArgs_type_names(seg.args)
  IN  set \cup {seg.ident}

GenericArgs_type_names(ga) ==
  IF ga.tag = "AngleBracketed"
  THEN FlatMap(AngleBracketedArg_type_names, ga.args)
  ELSE ParenthesizedArgs_type_names(ga)

AngleBracketedArg_type_names(a) ==
  IF a.tag = "Arg"
  THEN GenericArg_type_names(a.arg)
  ELSE IF a.gen_args.tag = "None" THEN {} ELSE GenericArgs_type_names(a.gen_args)

GenericArg_type_names(a) ==
  IF a.tag = "Type" THEN Ty_type_names(a.ty) ELSE {}

ParenthesizedArgs_type_names(a) ==
  FlatMap(Ty_type_names, a.inputs) \cup FnRetTy_type_names(a.output)

FieldDef_type_names(f) == Ty_type_names(f.ty)

VariantData_type_names(vd) ==
  IF vd.tag \in {"Struct", "Tuple"}
  THEN FlatMap(FieldDef_type_names, vd.fields)
  ELSE {}

TyAliasKind_type_names(ak) ==
  IF ak.tag = "Some" THEN Ty_type_names(ak.ty) ELSE {}

(***************************************************************************)
(* Inputs of the pipeline: the items the parsed crates hand to the         *)
(* visitor.  A small crate vocabulary around the three names main treats   *)
(* specially ("Id", "Cell", "UnsafeCell") and two ordinary types.          *)
(***************************************************************************)
F1(ty) == VStruct(<<FieldDef(ty)>>)
F2(t1, t2) == VStruct(<<FieldDef(t1), FieldDef(t2)>>)

ItemACell == StructItem("A", F1(Named("Cell")))
ItemAPtr == StructItem("A", F1(Ptr(Named("Cell"))))
ItemAliasAId == AliasItem("A", AliasTo(Named("Id")))
ItemBAId == StructItem("B", F2(Named("A"), Named("Id")))
ItemBSelf == StructItem("B", F1(Named("B")))
ItemAliasIdSeed == AliasItem("Id", AliasTo(Named("UnsafeCell")))
ItemCellB == StructItem("Cell", VTuple(<<FieldDef(Named("B"))>>))
ItemSeedUnit == StructItem("UnsafeCell", VUnit)
ItemSeedA == StructItem("UnsafeCell", F1(Named("A")))
ItemFn == OtherItem("f", <<>>)
ItemMod == OtherItem("m", <<ItemACell, ItemAPtr>>)

TopItems ==
  {ItemACell, ItemAPtr, ItemAliasAId, ItemBAId, ItemBSelf, ItemAliasIdSeed,
   ItemCellB, ItemSeedUnit, ItemSeedA, ItemFn, ItemMod}

(***************************************************************************)
(* Inputs of the extractor: every type shape up to MaxDepth wrappers       *)
(* around a leaf, each placed in a record, a tuple record and an alias.    *)
(***************************************************************************)
\* the leaf shapes, by number
LeafIds == 1..7

Leaf(j) ==
  CASE j = 1 -> Named("Foo")
    [] j = 2 -> Named("Bar")
    [] j = 3 -> Opaque("Never")
    [] j = 4 -> Opaque("TraitObject")
    [] j = 5 -> Tup(<<>>)
    [] j = 6 -> PathTy(<<PathSegment("Bar", NoArgs), PathSegment("Foo", NoArgs)>>)
    [] j = 7 -> PathTy(<<PathSegment("Iterator",
                         AngleBracketed(<<Constraint("Item", NoArgs, Bound)>>))>>)

\* the shapes that wrap a type t, by number
WrapIds == 1..16

Wrap(i, t) ==
  CASE i = 1 -> Slice(t)
    [] i = 2 -> Array(t)
    [] i = 3 -> Paren(t)
    [] i = 4 -> Ptr(t)
    [] i = 5 -> Rptr(t)
    [] i = 6 -> BareFn(<<t>>, RetDefault)
    [] i = 7 -> BareFn(<<>>, RetTy(t))
    [] i = 8 -> Tup(<<t, Named("Foo")>>)
    [] i = 9 -> Tup(<<Named("Bar"), t>>)
    [] i = 10 -> PathTy(<<PathSegment("Vec", AngleBracketed(<<Arg(ArgType(t))>>))>>)
    [] i = 11 -> PathTy(<<PathSegment("Vec",
                   AngleBracketed(<<Arg(ArgLifetime), Arg(ArgConst), Arg(ArgType(t))>>))>>)
    [] i = 12 -> PathTy(<<PathSegment("Iterator",
                   AngleBracketed(<<Constraint("Item", NoArgs, Equality(t))>>))>>)
    [] i = 13 -> PathTy(<<PathSegment("Iterator",
                   AngleBracketed(<<Constraint("Item",
                                               AngleBracketed(<<Arg(ArgType(t))>>),
                                               Equality(Named("Bar")))>>))>>)
    [] i = 14 -> PathTy(<<PathSegment("Fn", Parenthesized(<<t>>, RetDefault))>>)
    [] i = 15 -> PathTy(<<PathSegment("Fn", Parenthesized(<<Named("Bar")>>, RetTy(t)))>>)
    [] i = 16 -> PathTy(<<PathSegment("Outer", AngleBracketed(<<Arg(ArgType(t))>>)),
                          PathSegment("Vec", NoArgs)>>)

\* the type with the wrappers ws, outermost first, around leaf j
RECURSIVE BuildTy(_, _)
BuildTy(ws, j) ==
  IF ws = <<>> THEN Leaf(j) ELSE Wrap(Head(ws), BuildTy(Tail(ws), j))

\* the wrapper sequences of at most MaxDepth wrappers
WrapSeqs == UNION {[1..d -> WrapIds] : d \in 0..MaxDepth}

\* the definitions a type is placed in, by number
FormIds == 1..3

ItemOfTy(f, t) ==
  CASE f = 1 -> StructItem("S", VStruct(<<FieldDef(t)>>))
    [] f = 2 -> StructItem("S", VTuple(<<FieldDef(Named("Foo")), FieldDef(t)>>))
    [] f = 3 -> AliasItem("S", AliasTo(t))

FieldlessItems == {StructItem("S", VUnit), AliasItem("S", AliasOpaque)}

(***************************************************************************)
(* State.                                                                  *)
(***************************************************************************)
VARIABLES
  pc,        \* position in main
  items,     \* Collector.items
  diag,      \* lines printed on stdout
  cur,       \* the item visit_item is / was last called on
  pending,   \* nested items walk_item still has to visit
  nvisited,  \* top-level items visited so far
  graph,     \* main: graph
  g,         \* main: g, the working copy
  reachable, \* main: reachable
  added,     \* main: added
  passes,    \* number of scans of g done by the loop
  file,      \* the output file
  rTodo,     \* renderer: elements of reachable the outer for has not yielded
  curR,      \* renderer: r
  kTodo      \* renderer: elements of the intersection the inner for has not yielded

vars ==
  <<pc, items, diag, cur, pending, nvisited, graph, g, reachable, added,
    passes, file, rTodo, curR, kTodo>>

EmptyMap == [x \in {} |-> {}]

\* HashMap::insert
MapInsert(m, k, v) == [x \in DOMAIN m \cup {k} |-> IF x = k THEN v ELSE m[x]]

\* HashMap::remove
MapRemove(m, k) == [x \in DOMAIN m \ {k} |-> m[x]]

MapRemoveAll(m, ks) == [x \in DOMAIN m \ ks |-> m[x]]

NoFile == [created |-> FALSE, data |-> <<>>]

InitCommon ==
  /\ pc = "collect"
  /\ items = EmptyMap
  /\ diag = <<>>
  /\ cur = NoItem
  /\ nvisited = 0
  /\ graph = EmptyMap
  /\ g = EmptyMap
  /\ reachable = {}
  /\ added = {}
  /\ passes = 0
  /\ file = NoFile
  /\ rTodo = {}
  /\ curR = ""
  /\ kTodo = {}

Init == InitCommon /\ pending = <<>>

(***************************************************************************)
(* Collector                                                               *)
(***************************************************************************)
\* the value the match of visit_item inserts for an item, if any
Qualifies(it) == it.kind \in {"Struct", "TyAlias"}

ItemTypeNames(it) ==
  IF it.kind = "Struct"
  THEN VariantData_type_names(it.body)
  ELSE TyAliasKind_type_names(it.body)

DupLine(k, v) == <<"[DUP] ", k, ": ", v>>

\* a duplicate keeps the value that was there first
visit_item_keep(it, rest) ==
  LET k == it.ident IN
  /\ cur' = it
  /\ IF Qualifies(it)
     THEN /\ items' = IF k \in DOMAIN items
                      THEN items
                      ELSE MapInsert(items, k, ItemTypeNames(it))
          /\ diag' = IF k \in DOMAIN items
                     THEN Append(diag, DupLine(k, items[k]))
                     ELSE diag
     ELSE UNCHANGED <<items, diag>>
  /\ pending' = it.nested \o rest

\* visit_item on `it`, with `rest` the items walk_item has still to reach
visit_item(it, rest) ==
  LET k == it.ident IN
  /\ cur' = it
  /\ IF Qualifies(it)
     THEN /\ items' = MapInsert(items, k, ItemTypeNames(it))
          /\ diag' = IF k \in DOMAIN items
                     THEN Append(diag, DupLine(k, items[k]))
                     ELSE diag
     ELSE UNCHANGED <<items, diag>>
  /\ pending' = it.nested \o rest

VisitTop ==
  /\ pc = "collect"
  /\ pending = <<>>
  /\ nvisited < MaxItems
  /\ \E it \in TopItems : visit_item(it, <<>>)
  /\ nvisited' = nvisited + 1
  /\ UNCHANGED <<pc, graph, g, reachable, added, passes, file, rTodo, curR, kTodo>>

VisitNested ==
  /\ pc = "collect"
  /\ pending # <<>>
  /\ visit_item(Head(pending), Tail(pending))
  /\ UNCHANGED <<pc, nvisited, graph, g, reachable, added, passes, file, rTodo, curR, kTodo>>

\* parse_crate_from_file(..).unwrap() on a file that does not parse
ParseFail ==
  /\ pc = "collect"
  /\ pending = <<>>
  /\ pc' = "panicked"
  /\ UNCHANGED <<items, diag, cur, pending, nvisited, graph, g, reachable, added,
                 passes, file, rTodo, curR, kTodo>>

(***************************************************************************)
(* main, lines 40-48: pre-processing of the graph and seeding              *)
(***************************************************************************)
Seed == "UnsafeCell"

\* the natural definition of "Id" is left in the graph
PreGraph_keepId(m) == MapInsert(m, "Cell", {Seed})

PreGraph(m) == MapInsert(MapRemove(m, "Id"), "Cell", {Seed})

Preprocess ==
  /\ pc = "collect"
  /\ pending = <<>>
  /\ graph' = PreGraph(items)
  /\ g' = PreGraph(items)
  /\ reachable' = {Seed}
  /\ cur' = NoItem
  /\ pc' = "scan"
  /\ UNCHANGED <<items, diag, pending, nvisited, added, passes, file, rTodo, curR, kTodo>>

(***************************************************************************)
(* main, lines 50-64: the fixed-point loop                                 *)
(***************************************************************************)
\* the keys the for loop of a pass pushes to `added`
\* a key is collected when all its references are reachable
Collected_subset(m, r) == {k \in DOMAIN m : m[k] \subseteq r}

Collected(m, r) == {k \in DOMAIN m : m[k] \cap r # {}}

Scan ==
  /\ pc = "scan"
  /\ added' = Collected(g, reachable)
  /\ passes' = passes + 1
  /\ pc' = "check"
  /\ UNCHANGED <<items, diag, cur, pending, nvisited, graph, g, reachable, file,
                 rTodo, curR, kTodo>>

\* the loop is left after the first pass, whatever it collected
Break_always ==
  /\ pc = "check"
  /\ pc' = "create"
  /\ UNCHANGED <<items, diag, cur, pending, nvisited, graph, g, reachable, added,
                 passes, file, rTodo, curR, kTodo>>

Break ==
  /\ pc = "check"
  /\ added = {}
  /\ pc' = "create"
  /\ UNCHANGED <<items, diag, cur, pending, nvisited, graph, g, reachable, added,
                 passes, file, rTodo, curR, kTodo>>

\* the promoted keys stay in the working copy
Promote_keep ==
  /\ pc = "check"
  /\ added # {}
  /\ reachable' = reachable \cup added
  /\ added' = {}
  /\ pc' = "scan"
  /\ UNCHANGED <<items, diag, cur, pending, nvisited, graph, g, passes, file, rTodo,
                 curR, kTodo>>

Promote ==
  /\ pc = "check"
  /\ added # {}
  /\ g' = MapRemoveAll(g, added)
  /\ reachable' = reachable \cup added
  /\ added' = {}
  /\ pc' = "scan"
  /\ UNCHANGED <<items, diag, cur, pending, nvisited, graph, passes, file, rTodo,
                 curR, kTodo>>

(***************************************************************************)
(* main, lines 66-78: the renderer                                         *)
(***************************************************************************)
Header == <<"digraph G {\n">>
Footer == <<"}">>
EdgeLine(r, k) == <<"  \"", r, "\" -> \"", k, "\";\n">>

\* a write that succeeds appends all the pieces
WriteOk(pieces) == file' = [file EXCEPT !.data = @ \o pieces]

\* a write that fails may have appended any proper prefix of the pieces
WriteErr(pieces) ==
  /\ \E n \in 0..(Len(pieces) - 1) :
       file' = [file EXCEPT !.data = @ \o SubSeq(pieces, 1, n)]
  /\ pc' = "io_err"

CreateOk ==
  /\ pc = "create"
  /\ file' = [created |-> TRUE, data |-> <<>>]
  /\ pc' = "header"
  /\ UNCHANGED <<items, diag, cur, pending, nvisited, graph, g, reachable, added,
                 passes, rTodo, curR, kTodo>>

CreateErr ==
  /\ pc = "create"
  /\ pc' = "io_err"
  /\ UNCHANGED <<items, diag, cur, pending, nvisited, graph, g, reachable, added,
                 passes, file, rTodo, curR, kTodo>>

WriteHeader ==
  /\ pc = "header"
  /\ WriteOk(Header)
  /\ rTodo' = reachable
  /\ pc' = "outer"
  /\ UNCHANGED <<items, diag, cur, pending, nvisited, graph, g, reachable, added,
                 passes, curR, kTodo>>

WriteHeaderErr ==
  /\ pc = "header"
  /\ WriteErr(Header)
  /\ UNCHANGED <<items, diag, cur, pending, nvisited, graph, g, reachable, added,
                 passes, rTodo, curR, kTodo>>

\* every reference of r is written, reachable or not
EdgeTargets_all(r) == graph[r]

\* ks.intersection(&reachable)
EdgeTargets(r) == graph[r] \cap reachable

\* the outer for yields r; graph.get(r) decides whether the inner for runs
OuterNext ==
  /\ pc = "outer"
  /\ \E r \in rTodo :
       /\ rTodo' = rTodo \ {r}
       /\ curR' = r
       /\ IF r \in DOMAIN graph
          THEN /\ kTodo' = EdgeTargets(r)
               /\ pc' = "inner"
          ELSE UNCHANGED <<kTodo, pc>>
  /\ UNCHANGED <<items, diag, cur, pending, nvisited, graph, g, reachable, added,
                 passes, file>>

WriteEdge ==
  /\ pc = "inner"
  /\ \E k \in kTodo :
       /\ kTodo' = kTodo \ {k}
       /\ WriteOk(EdgeLine(curR, k))
  /\ UNCHANGED <<pc, items, diag, cur, pending, nvisited, graph, g, reachable, added,
                 passes, rTodo, curR>>

WriteEdgeErr ==
  /\ pc = "inner"
  /\ \E k \in kTodo : WriteErr(EdgeLine(curR, k))
  /\ UNCHANGED <<items, diag, cur, pending, nvisited, graph, g, reachable, added,
                 passes, rTodo, curR, kTodo>>

InnerDone ==
  /\ pc = "inner"
  /\ kTodo = {}
  /\ pc' = "outer"
  /\ UNCHANGED <<items, diag, cur, pending, nvisited, graph, g, reachable, added,
                 passes, file, rTodo, curR, kTodo>>

WriteFooter ==
  /\ pc = "outer"
  /\ rTodo = {}
  /\ WriteOk(Footer)
  /\ pc' = "done"
  /\ UNCHANGED <<items, diag, cur, pending, nvisited, graph, g, reachable, added,
                 passes, rTodo, curR, kTodo>>

WriteFooterErr ==
  /\ pc = "outer"
  /\ rTodo = {}
  /\ WriteErr(Footer)
  /\ UNCHANGED <<items, diag, cur, pending, nvisited, graph, g, reachable, added,
                 passes, rTodo, curR, kTodo>>

Next ==
  \/ VisitTop
  \/ VisitNested
  \/ ParseFail
  \/ Preprocess
  \/ Scan
  \/ Break
  \/ Promote
  \/ CreateOk
  \/ CreateErr
  \/ WriteHeader
  \/ WriteHeaderErr
  \/ OuterNext
  \/ WriteEdge
  \/ WriteEdgeErr
  \/ InnerDone
  \/ WriteFooter
  \/ WriteFooterErr

Spec == Init /\ [][Next]_vars

\* main is one synchronous thread: whatever step is enabled is taken
FairSpec == Spec /\ WF_vars(Next)

(***************************************************************************)
(* The extractor on its own: visit_item applied to one definition, drawn   *)
(* from the fieldless definitions and the type shapes of WrapSeqs.         *)
(***************************************************************************)
ExtractInit ==
  /\ InitCommon
  /\ \/ \E it \in FieldlessItems : pending = <<it>>
     \/ \E ws \in WrapSeqs, j \in LeafIds, f \in FormIds :
          pending = <<ItemOfTy(f, BuildTy(ws, j))>>

ExtractNext == VisitNested

ExtractSpec == ExtractInit /\ [][ExtractNext]_vars

(***************************************************************************)
(* Properties                                                              *)
(***************************************************************************)
SeedSet == {Seed}

\* main is past the fixed-point loop
LoopExited == pc \in {"create", "header", "outer", "inner", "done", "io_err"}

\* S is closed under "a key whose ReferenceSet meets S is in S"
IsClosed(m, S) == \A k \in DOMAIN m : m[k] \cap S # {} => k \in S

\* C1: the set the loop ends with is the smallest superset of the seed set
\* closed under the promotion rule: it contains the seeds, lies within the
\* graph keys and the seeds, is closed, is contained in every closed superset
\* of the seeds, and no key left in the working copy references a member.
C1_LeastClosure ==
  LoopExited =>
    /\ SeedSet \subseteq reachable
    /\ reachable \subseteq DOMAIN graph \cup SeedSet
    /\ IsClosed(graph, reachable)
    /\ \A T \in SUBSET (DOMAIN graph \cup SeedSet) :
         (SeedSet \subseteq T /\ IsClosed(graph, T)) => reachable \subseteq T
    /\ \A k \in DOMAIN g : g[k] \cap reachable = {}

C1_Witness ==
  /\ pc = "create"
  /\ "A" \in reachable
  /\ "B" \in DOMAIN graph \ reachable
  /\ "B" \in graph["B"]

\* the edges of the full graph with both endpoints reachable
Induced ==
  {e \in reachable \X reachable : e[1] \in DOMAIN graph /\ e[2] \in graph[e[1]]}

\* C2: a finished output is the header, then one line per induced edge and
\* no other line, each induced edge on exactly one line, then the footer.
C2_InducedEdges ==
  pc = "done" =>
    LET d == file.data
        n == Cardinality(Induced)
    IN  /\ Len(d) = 5 * n + 2
        /\ d[1] = Header[1]
        /\ d[Len(d)] = Footer[1]
        /\ \A i \in 0..(n - 1) :
             \E e \in Induced : SubSeq(d, 5 * i + 2, 5 * i + 6) = EdgeLine(e[1], e[2])
        /\ \A e \in Induced :
             \E i \in 0..(n - 1) : SubSeq(d, 5 * i + 2, 5 * i + 6) = EdgeLine(e[1], e[2])

C2_Witness ==
  /\ pc = "done"
  /\ Cardinality(Induced) >= 3
  /\ \E r \in reachable \cap DOMAIN graph : graph[r] \ reachable # {}
  /\ DOMAIN g # DOMAIN graph

\* C3 as stated: the name removed from the graph ("Id") is in the final
\* reachable set.
C3_RemovedNameReachable == LoopExited => "Id" \in reachable

\* C3: the name given the synthetic entry ("Cell") is in the final reachable
\* set whatever the sources define for it; the name removed from the graph
\* ("Id") is no graph key and is not in the final reachable set; the seed is
\* "UnsafeCell".
C3_SyntheticRedirection ==
  LoopExited =>
    /\ "Cell" \in reachable
    /\ graph["Cell"] = {"UnsafeCell"}
    /\ "UnsafeCell" \in reachable
    /\ "Id" \notin DOMAIN graph
    /\ "Id" \notin reachable
    /\ \A k \in DOMAIN items \ {"Id", "Cell"} :
         k \in DOMAIN graph /\ graph[k] = items[k]

C3_Witness ==
  /\ pc = "create"
  /\ "Id" \in DOMAIN items
  /\ "Cell" \in DOMAIN items
  /\ items["Id"] = {"UnsafeCell"}
  /\ items["Cell"] = {"B"}

\* a step of the collector that visits an item
IsVisit ==
  /\ pc = "collect"
  /\ pc' = "collect"
  /\ <<nvisited, pending>>' # <<nvisited, pending>>

\* C4: visiting a struct or alias definition sets the graph entry of its
\* name to its own ReferenceSet and leaves the other entries alone; it prints
\* exactly one diagnostic, naming the key and the displaced set, when the
\* name was a key already and none otherwise; other items change neither;
\* the visitor goes on to the nested and following items in every case.
C4_LastWriterWins ==
  [][IsVisit =>
      LET it == cur'
          k == it.ident
      IN  /\ Qualifies(it) =>
               /\ DOMAIN items' = DOMAIN items \cup {k}
               /\ items'[k] = ItemTypeNames(it)
               /\ \A x \in DOMAIN items \ {k} : items'[x] = items[x]
               /\ k \in DOMAIN items => diag' = Append(diag, DupLine(k, items[k]))
               /\ k \notin DOMAIN items => diag' = diag
          /\ ~Qualifies(it) => items' = items /\ diag' = diag
          /\ Len(pending') >= Len(it.nested)
          /\ SubSeq(pending', 1, Len(it.nested)) = it.nested
    ]_vars

C4_Witness ==
  /\ pc = "collect"
  /\ Len(diag) = 2
  /\ cur = ItemAPtr
  /\ items["A"] = {}
  /\ diag[2] = DupLine("A", {"Cell"})

\* C5 as stated: a run that ends in a fatal condition has written nothing
\* to the output file.
C5_NoPartialOutput == pc \in {"panicked", "io_err"} => file.data = <<>>

\* C6: the loop terminates: a pass that promotes strictly shrinks the
\* working copy, the number of passes never exceeds the number of graph keys
\* plus one, and a loop that was entered is left.
C6_Termination ==
  /\ [](passes <= Cardinality(DOMAIN graph) + 1)
  /\ [][(pc = "check" /\ pc' = "scan") =>
          (DOMAIN g' \subseteq DOMAIN g /\ DOMAIN g' # DOMAIN g)]_vars
  /\ (pc = "scan" ~> pc = "create")

C6_Witness ==
  /\ pc = "create"
  /\ passes = 4
  /\ passes = Cardinality(DOMAIN graph) + 1
  /\ "B" \in DOMAIN graph
  /\ "A" \in graph["B"]

\* C7: reachable never loses a name, and once the loop is left a further
\* scan of the working copy collects nothing.
C7_Monotone ==
  /\ [][reachable \subseteq reachable']_vars
  /\ [](LoopExited => Collected(g, reachable) = {})

C7_Witness ==
  /\ pc = "create"
  /\ passes >= 3
  /\ DOMAIN g # {}
  /\ Cardinality(reachable) >= 3

(***************************************************************************)
(* Properties of the extractor (ExtractSpec)                               *)
(***************************************************************************)
\* visit_item has run on the drawn definition
Extracted == pc = "collect" /\ pending = <<>> /\ cur # NoItem

IsIndirection(ty) == ty.kind \in {"Ptr", "Rptr", "BareFn"}

\* the type with every pointer, reference and function pointer in it, at any
\* depth, replaced by a shape that names nothing
RECURSIVE EraseTy(_)
RECURSIVE EraseArgs(_)

EraseSeq(tys) == [i \in 1..Len(tys) |-> EraseTy(tys[i])]

EraseRet(r) == IF r.tag = "Ty" THEN RetTy(EraseTy(r.ty)) ELSE r

EraseEntry(a) ==
  IF a.tag = "Arg"
  THEN IF a.arg.tag = "Type" THEN Arg(ArgType(EraseTy(a.arg.ty))) ELSE a
  ELSE Constraint(a.ident, EraseArgs(a.gen_args),
                  IF a.ckind.tag = "Equality" THEN Equality(EraseTy(a.ckind.ty))
                  ELSE a.ckind)

EraseArgs(ga) ==
  CASE ga.tag = "None" -> ga
    [] ga.tag = "AngleBracketed" ->
         AngleBracketed([i \in 1..Len(ga.args) |-> EraseEntry(ga.args[i])])
    [] ga.tag = "Parenthesized" ->
         Parenthesized(EraseSeq(ga.inputs), EraseRet(ga.output))

EraseTy(ty) ==
  CASE IsIndirection(ty) -> Opaque("Never")
    [] ty.kind \in {"Slice", "Array", "Paren"} -> [ty EXCEPT !.ty = EraseTy(ty.ty)]
    [] ty.kind = "Tup" -> Tup(EraseSeq(ty.tys))
    [] ty.kind = "Path" ->
         PathTy([i \in 1..Len(ty.p.segments) |->
                   PathSegment(ty.p.segments[i].ident,
                               EraseArgs(ty.p.segments[i].args))])
    [] OTHER -> ty

EraseFields(vd) ==
  IF vd.tag = "Unit" THEN vd
  ELSE [vd EXCEPT !.fields = [i \in 1..Len(vd.fields) |-> FieldDef(EraseTy(vd.fields[i].ty))]]

\* the type has a pointer, reference or function pointer somewhere in it
HasIndirection(ty) == EraseTy(ty) # ty

\* C8: for a record definition, every field whose type is a directly
\* embedded named type contributes that name; a field that is a pointer,
\* reference or function pointer contributes nothing; and the ReferenceSet
\* is the one of the same record with every indirection in it, at any depth,
\* erased.  Fields (Foo, *Bar) yield {Foo}.
C8_ExtractionPurity ==
  (Extracted /\ cur.kind = "Struct" /\ cur.body.tag # "Unit") =>
    LET fs == cur.body.fields
        set == items[cur.ident]
    IN  /\ \A i \in 1..Len(fs) :
             fs[i].ty.kind = "Path" =>
               fs[i].ty.p.segments[Len(fs[i].ty.p.segments)].ident \in set
        /\ (\A i \in 1..Len(fs) : IsIndirection(fs[i].ty)) => set = {}
        /\ set = VariantData_type_names(EraseFields(cur.body))
        /\ cur.body = VTuple(<<FieldDef(Named("Foo")), FieldDef(Ptr(Named("Bar")))>>)
             => set = {"Foo"}

C8_Witness ==
  /\ Extracted
  /\ cur = StructItem("S", VTuple(<<FieldDef(Named("Foo")),
                                    FieldDef(Array(Ptr(Named("Bar"))))>>))
  /\ items["S"] = {"Foo"}

\* the types among the generic arguments of a path segment
TypeArgs(seg) ==
  CASE seg.args.tag = "None" -> {}
    [] seg.args.tag = "AngleBracketed" ->
         {seg.args.args[i].arg.ty :
            i \in {j \in 1..Len(seg.args.args) :
                     /\ seg.args.args[j].tag = "Arg"
                     /\ seg.args.args[j].arg.tag = "Type"}}
    [] seg.args.tag = "Parenthesized" ->
         {seg.args.inputs[i] : i \in 1..Len(seg.args.inputs)}
           \cup (IF seg.args.output.tag = "Ty" THEN {seg.args.output.ty} ELSE {})

HasConstraint(seg) ==
  /\ seg.args.tag = "AngleBracketed"
  /\ \E i \in 1..Len(seg.args.args) : seg.args.args[i].tag = "Constraint"

\* C9: the ReferenceSet of an alias to a named-path type holds the name of
\* the final segment and the referenced types of every type argument of the
\* final segment, and nothing else when that segment has no constraint
\* entry; the segments before the final one contribute nothing.
C9_GenericUnwrapping ==
  (Extracted /\ cur.kind = "TyAlias" /\ cur.body.tag = "Some" /\ cur.body.ty.kind = "Path") =>
    LET segs == cur.body.ty.p.segments
        seg == segs[Len(segs)]
        set == items[cur.ident]
        want == {seg.ident} \cup UNION {Ty_type_names(t) : t \in TypeArgs(seg)}
    IN  /\ want \subseteq set
        /\ ~HasConstraint(seg) => set = want
        /\ set = Ty_type_names(PathTy(<<seg>>))

C9_Witness ==
  /\ Extracted
  /\ cur = AliasItem("S", AliasTo(PathTy(<<
             PathSegment("Vec", AngleBracketed(<<Arg(ArgType(
               PathTy(<<PathSegment("Bar", NoArgs), PathSegment("Foo", NoArgs)>>)))>>))>>)))
  /\ items["S"] = {"Vec", "Foo"}

\* the referenced types of the value a constraint binds, if it binds one
BoundValueNames(c) ==
  IF c.ckind.tag = "Equality" THEN Ty_type_names(c.ckind.ty) ELSE {}

\* C10 as stated: a constraint entry contributes the referenced types of its
\* bound value, and nothing when it has none, so the ReferenceSet of a path
\* whose final segment carries constraint entries only is the segment's name
\* and the referenced types of the bound values.
C10_ConstraintBoundValue ==
  (Extracted /\ cur.kind = "TyAlias" /\ cur.body.tag = "Some" /\ cur.body.ty.kind = "Path") =>
    LET segs == cur.body.ty.p.segments
        seg == segs[Len(segs)]
    IN  (HasConstraint(seg) /\ TypeArgs(seg) = {}) =>
          items[cur.ident] =
            {seg.ident} \cup UNION {BoundValueNames(seg.args.args[i]) :
                                      i \in 1..Len(seg.args.args)}

====
